---- MODULE Spec2Model ----
(***************************************************************************)
(* Silverman critical-bandwidth search (Silverman.ipynb).                  *)
(*                                                                         *)
(* Bandwidths are integers: one unit is one hundredth, so the literal      *)
(* call find_critical_value(chondrites, 10, 0.01, 2) of bootstrap reads    *)
(* (chondrites, 1000, 1, 2).  A sample is represented by what the search   *)
(* observes of it: the number of KDE maxima at each bandwidth, a function  *)
(* from bandwidths to counts.  The KDE and argrelmax libraries are total   *)
(* black boxes: they produce a curve for every bandwidth they are given.   *)
(***************************************************************************)
EXTENDS Integers, Sequences, FiniteSets, TLC

VARIABLES
    pc,          \* "idle" | "loop" | "boot" | "done" | "raised"
    fn,          \* the function the notebook user called
    exception,   \* "None" or the name of the exception that ended the call
    result,      \* the value returned to the caller when pc = "done"
    figure,      \* the current matplotlib figure: the sequence of its lines
    \* binary_search: parameters and locals
    data, searchMax, searchStep, k,
    searchList, start, end, found, found_h, midpoint,
    reads,       \* indices of searchList read by the last loop iteration
    probes,      \* the midpoints probed so far by the running search
    calls,       \* bandwidths handed to find_maxima by the last operation
    \* bootstrap: parameters and locals
    b_args, hlist, i,
    fcv_args,    \* arguments of the last find_critical_value call
    h_crit,      \* find_critical_value: result of its first search
    kde_bw,      \* bandwidths the last find_critical_value fitted a KDE with
    memo         \* an earlier find_maxima call, kept to compare with later ones

vars == <<pc, fn, exception, result, figure, data, searchMax, searchStep, k,
          searchList, start, end, found, found_h, midpoint, reads, calls,
          probes, b_args, hlist, i, fcv_args, h_crit, kde_bw, memo>>

searchLocals == <<searchMax, searchStep, k, searchList, start, end,
                  found, found_h, midpoint, reads, probes>>
searchVars == <<data, searchLocals>>
bootVars == <<b_args, hlist, i, fcv_args, h_crit, kde_bw>>

-----------------------------------------------------------------------------
(* Bounds of the model *)
MaxNegSearchMax == 2
MaxSearchMax == 5
MaxNegSearchStep == 1
MaxSearchStep == 2
MaxGrid == 5
MaxModes == 3
MaxK == 3
MaxSimulations == 2
MaxFcvGrid == 2
MaxBetween == 2

(* Program constants *)
NotFoundPlaceholder == 12345
LiteralSearchMax == 1000
LiteralSearchStep == 1
LiteralK == 2
ChondritesCritical == 184

Counts == 0..MaxModes
NoArgs == [none |-> TRUE]

Range(s) == {s[j] : j \in 1..Len(s)}

-----------------------------------------------------------------------------
(* Integer ceiling of a / b for b > 0 *)
CeilDiv(a, b) == (a + b - 1) \div b

(* A grid length that rounds down instead of up *)
ArangeLenFloor(lo, stop, step) ==
    LET n == IF step > 0 THEN (stop - lo) \div step
                         ELSE (lo - stop) \div (-step)
    IN  IF n > 0 THEN n ELSE 0

(* Number of elements of numpy.arange(lo, stop, step), step # 0:           *)
(* ceil((stop - lo) / step), and none when that is not positive.           *)
ArangeLen(lo, stop, step) ==
    LET n == IF step > 0 THEN CeilDiv(stop - lo, step)
                         ELSE CeilDiv(lo - stop, -step)
    IN  IF n > 0 THEN n ELSE 0

(* numpy.arange(lo, stop, step): the values lo + j * step *)
arange(lo, stop, step) ==
    [j \in 1..ArangeLen(lo, stop, step) |-> lo + (j - 1) * step]

(* Python list indexing list[idx]: a negative idx counts from the end *)
PyIndex(list, idx) == IF idx < 0 THEN Len(list) + idx ELSE idx
Elem(list, idx) == list[PyIndex(list, idx) + 1]

-----------------------------------------------------------------------------
(* The line sns.kdeplot(data, bw=h) draws: the density of data at bandwidth *)
(* h, kept as the number of local maxima argrelmax finds on it.             *)
Curve(d, h) == [bw |-> h, modes |-> d[h]]

(* A find_maxima that plots onto the figure as it finds it *)
find_maxima_unclear(fig, d, h) ==
    LET plotted == Append(fig, Curve(d, h))
    IN  [count |-> plotted[1].modes, figure |-> plotted]

(* find_maxima(data, h): clear the figure, plot, read back the first line  *)
(* of the figure and count its maxima.  Yields the count (element [0] of   *)
(* the returned pair) and the figure it leaves behind.                     *)
find_maxima(fig, d, h) ==
    LET cleared == <<>>
        plotted == Append(cleared, Curve(d, h))
    IN  [count |-> plotted[1].modes, figure |-> plotted]

(* line 171: midpoint = int((start+end)/2) *)
Midpoint(s) == (s.start + s.end) \div 2

(* lines 177 and 186: the new end when the search goes on below mid *)
LowerHalf(mid) == mid - 1

(* An upper half that skips the grid point after mid *)
UpperHalfSkips(mid) == mid + 2

(* line 183: the new start when the search goes on above mid *)
UpperHalf(mid) == mid + 1

(* A loop body that accepts the first grid point whose count is k without  *)
(* looking at its predecessor.                                             *)
LoopBodyAcceptAnyMatch(s, d, list, kk) ==
    LET mid    == Midpoint(s)
        prop_h == Elem(list, mid)
        m1     == find_maxima(s.figure, d, prop_h)
        t      == [s EXCEPT !.midpoint = mid,
                            !.probes = Append(s.probes, mid),
                            !.figure = m1.figure,
                            !.reads = <<mid>>,
                            !.calls = <<prop_h>>]
    IN  IF m1.count = kk
        THEN [t EXCEPT !.found_h = prop_h, !.found = TRUE]
        ELSE IF m1.count > kk
             THEN [t EXCEPT !.start = UpperHalf(mid)]
             ELSE [t EXCEPT !.end = LowerHalf(mid)]

(* One pass through the body of the while loop of binary_search.  s holds  *)
(* the locals and the figure; list is searchList.                          *)
LoopBody(s, d, list, kk) ==
    LET mid    == Midpoint(s)
        prop_h == Elem(list, mid)
        m1     == find_maxima(s.figure, d, prop_h)
    IN  IF m1.count = kk
        THEN LET check_h == Elem(list, mid - 1)
                 m2      == find_maxima(m1.figure, d, check_h)
                 t       == [s EXCEPT !.midpoint = mid,
                                      !.probes = Append(s.probes, mid),
                                      !.figure = m2.figure,
                                      !.reads = <<mid, PyIndex(list, mid - 1)>>,
                                      !.calls = <<prop_h, check_h>>]
             IN  IF m2.count = kk
                 THEN [t EXCEPT !.end = LowerHalf(mid)]
                 ELSE [t EXCEPT !.found_h = prop_h, !.found = TRUE]
        ELSE LET m3 == find_maxima(m1.figure, d, prop_h)
             IN  IF m3.count > kk
                 THEN [s EXCEPT !.midpoint = mid,
                                !.probes = Append(s.probes, mid),
                                !.figure = m3.figure,
                                !.reads = <<mid>>,
                                !.calls = <<prop_h, prop_h>>,
                                !.start = UpperHalf(mid)]
                 ELSE LET m4 == find_maxima(m3.figure, d, prop_h)
                          u  == [s EXCEPT !.midpoint = mid,
                                          !.probes = Append(s.probes, mid),
                                          !.figure = m4.figure,
                                          !.reads = <<mid>>,
                                          !.calls = <<prop_h, prop_h, prop_h>>]
                      IN  IF m4.count < kk
                          THEN [u EXCEPT !.end = LowerHalf(mid)]
                          ELSE u

(* The locals of binary_search before the loop *)
SearchEntry(fig, list) ==
    [start |-> 0, end |-> Len(list) - 1, found |-> FALSE,
     found_h |-> NotFoundPlaceholder, midpoint |-> -1,
     reads |-> <<>>, probes |-> <<>>, calls |-> <<>>, figure |-> fig]

LoopGuard(s) == s.start <= s.end /\ s.found = FALSE

RECURSIVE RunLoop(_, _, _, _)
RunLoop(s, d, list, kk) ==
    IF LoopGuard(s) THEN RunLoop(LoopBody(s, d, list, kk), d, list, kk) ELSE s

(* binary_search(data, searchMax, searchStep, k) run to its return:        *)
(* numpy.arange rejects a zero step with an exception (ZeroDivisionError,  *)
(* or ValueError in some numpy versions; one name stands for both).        *)
binary_search(fig, d, mx, st, kk) ==
    IF st = 0
    THEN [exc |-> "ZeroDivisionError", value |-> NotFoundPlaceholder,
          found |-> FALSE, probes |-> <<>>, figure |-> fig]
    ELSE LET list == arange(0, mx, st)
             s    == RunLoop(SearchEntry(fig, list), d, list, kk)
         IN  [exc |-> "None", value |-> s.found_h, found |-> s.found,
              probes |-> s.probes, figure |-> s.figure]

(* A find_critical_value that hands back the bandwidth of its first search *)
find_critical_value_first(fig, d, mx, st, kk, X) ==
    LET first == binary_search(fig, d, mx, st, kk)
    IN  [exc |-> first.exc, h_crit |-> first.value,
         kde_bw |-> IF first.exc = "None" THEN <<first.value>> ELSE <<>>,
         value |-> first.value, figure |-> first.figure]

(* find_critical_value(data, searchMax, searchStep, k), where X is the     *)
(* sample gaussian_kde(data, bw_method=h_crit).resample() draws.           *)
find_critical_value(fig, d, mx, st, kk, X) ==
    LET first == binary_search(fig, d, mx, st, kk)
    IN  IF first.exc # "None"
        THEN [exc |-> first.exc, h_crit |-> first.value, kde_bw |-> <<>>,
              value |-> first.value, figure |-> first.figure]
        ELSE LET second == binary_search(first.figure, X, mx, st, kk)
             IN  [exc |-> second.exc, h_crit |-> first.value,
                  kde_bw |-> <<first.value>>,
                  value |-> second.value, figure |-> second.figure]

-----------------------------------------------------------------------------
(* Samples.  Staircase(a, b) has three maxima below bandwidth a, two from  *)
(* a up to b and one from b on.                                            *)
Staircase(a, b) ==
    [h \in 0..(LiteralSearchMax - 1) |->
        IF h < a THEN 3 ELSE IF h < b THEN 2 ELSE 1]

(* The global dataset: two maxima from the bandwidth the notebook plots    *)
chondrites == Staircase(ChondritesCritical, LiteralSearchMax)

(* Samples the fitted KDE can yield on resampling *)
Resamples ==
    { Staircase(ChondritesCritical - 30, LiteralSearchMax),
      Staircase(ChondritesCritical + 20, LiteralSearchMax),
      Staircase(0, ChondritesCritical),
      Staircase(ChondritesCritical, ChondritesCritical) }

Unimodal == [h \in 0..MaxSearchMax |-> 1]

BootstrapArgs ==
    [data : {chondrites, Unimodal},
     searchMax : {LiteralSearchMax, MaxSearchMax},
     searchStep : {LiteralSearchStep, MaxSearchStep},
     k : 1..MaxK,
     num_simulations : 0..MaxSimulations]

(* A figure left by earlier plotting in the notebook session *)
StaleCurve == [bw |-> ChondritesCritical, modes |-> LiteralK]

-----------------------------------------------------------------------------
Init ==
    /\ pc = "idle"
    /\ fn = "none"
    /\ exception = "None"
    /\ result = 0
    /\ figure \in {<<>>, <<StaleCurve>>}
    /\ data = <<>>
    /\ searchMax = 0
    /\ searchStep = 0
    /\ k = 0
    /\ searchList = <<>>
    /\ start = 0
    /\ end = 0
    /\ found = FALSE
    /\ found_h = 0
    /\ midpoint = -1
    /\ reads = <<>>
    /\ probes = <<>>
    /\ calls = <<>>
    /\ b_args = NoArgs
    /\ hlist = <<>>
    /\ i = 0
    /\ fcv_args = NoArgs
    /\ h_crit = 0
    /\ kde_bw = <<>>
    /\ memo = NoArgs

(* memo after one more operation on the figure: later counts the          *)
(* operations run since the remembered call, up to MaxBetween.             *)
Later(mm) ==
    IF mm = NoArgs \/ mm.later >= MaxBetween
    THEN mm
    ELSE [mm EXCEPT !.later = mm.later + 1]

(* The notebook is ready for a call of find_maxima or for the plot cell:   *)
(* at the start, or after an earlier one of them has finished.             *)
CellReady == pc = "idle" \/ (pc = "done" /\ fn \in {"find_maxima", "plot"})

(* The notebook user calls find_maxima(d, h); keep says whether the call   *)
(* is the one remembered in memo.                                          *)
FindMaximaCall(d, h, keep) ==
    /\ CellReady
    /\ LET m == find_maxima(figure, d, h)
       IN  /\ result' = m.count
           /\ figure' = m.figure
           /\ memo' = IF keep
                      THEN [data |-> d, h |-> h, count |-> m.count,
                            later |-> 0]
                      ELSE Later(memo)
    /\ data' = d
    /\ calls' = <<h>>
    /\ fn' = "find_maxima"
    /\ pc' = "done"
    /\ UNCHANGED <<exception, searchLocals, bootVars>>

(* A vertical marker plt.axvline draws: a line without maxima *)
VLine == [bw |-> 0, modes |-> 0]

(* The notebook's test cell, lines 248-256: find_maxima(chondrites, 1.84), *)
(* then clear, plot the density and one marker per maximum found.          *)
PlotCell ==
    /\ CellReady
    /\ LET m       == find_maxima(figure, chondrites, ChondritesCritical)
           cleared == <<>>
           plotted == Append(cleared, Curve(chondrites, ChondritesCritical))
       IN  figure' = plotted \o [j \in 1..m.count |-> VLine]
    /\ calls' = <<ChondritesCritical>>
    /\ memo' = Later(memo)
    /\ fn' = "plot"
    /\ pc' = "done"
    /\ UNCHANGED <<exception, result, searchVars, bootVars>>

(* The notebook user calls find_critical_value(d, mx, st, kk); X is the    *)
(* sample the resampling draws.                                            *)
FindCriticalValueCall(d, mx, st, kk, X) ==
    /\ pc = "idle"
    /\ fn' = "find_critical_value"
    /\ fcv_args' = [data |-> d, searchMax |-> mx, searchStep |-> st, k |-> kk]
    /\ LET r == find_critical_value(figure, d, mx, st, kk, X)
       IN  /\ h_crit' = r.h_crit
           /\ kde_bw' = r.kde_bw
           /\ figure' = r.figure
           /\ exception' = r.exc
           /\ IF r.exc = "None"
              THEN result' = r.value /\ pc' = "done"
              ELSE result' = result /\ pc' = "raised"
    /\ UNCHANGED <<searchVars, calls, b_args, hlist, i, memo>>

(* binary_search, lines 164-168: build the grid and set the locals *)
BinarySearchCall(d, mx, st, kk) ==
    /\ pc = "idle"
    /\ fn' = "binary_search"
    /\ data' = d
    /\ searchMax' = mx
    /\ searchStep' = st
    /\ k' = kk
    /\ IF st = 0
       THEN /\ exception' = "ZeroDivisionError"
            /\ pc' = "raised"
            /\ UNCHANGED <<searchList, start, end, found, found_h, midpoint,
                           reads, probes, calls>>
       ELSE LET list == arange(0, mx, st)
                s    == SearchEntry(figure, list)
            IN  /\ searchList' = list
                /\ start' = s.start
                /\ end' = s.end
                /\ found' = s.found
                /\ found_h' = s.found_h
                /\ midpoint' = s.midpoint
                /\ reads' = s.reads
                /\ probes' = s.probes
                /\ calls' = s.calls
                /\ exception' = "None"
                /\ pc' = "loop"
    /\ UNCHANGED <<result, figure, bootVars, memo>>

Locals ==
    [start |-> start, end |-> end, found |-> found, found_h |-> found_h,
     midpoint |-> midpoint, reads |-> reads, probes |-> probes,
     calls |-> calls, figure |-> figure]

(* A loop body that goes on below mid with end = midpoint *)
LoopBodyKeepsMid(s, d, list, kk) ==
    LET r == LoopBody(s, d, list, kk)
    IN  IF r.end # s.end THEN [r EXCEPT !.end = r.midpoint] ELSE r

(* A loop iteration with that body *)
BinarySearchIterationKeepsMid ==
    /\ pc = "loop"
    /\ LoopGuard(Locals)
    /\ LET s == LoopBodyKeepsMid(Locals, data, searchList, k)
       IN  /\ start' = s.start
           /\ end' = s.end
           /\ found' = s.found
           /\ found_h' = s.found_h
           /\ midpoint' = s.midpoint
           /\ reads' = s.reads
           /\ probes' = s.probes
           /\ calls' = s.calls
           /\ figure' = s.figure
    /\ UNCHANGED <<pc, fn, exception, result, data, searchMax, searchStep, k,
                   searchList, bootVars, memo>>

(* binary_search, lines 170-186: one iteration of the while loop *)
BinarySearchIteration ==
    /\ pc = "loop"
    /\ LoopGuard(Locals)
    /\ LET s == LoopBody(Locals, data, searchList, k)
       IN  /\ start' = s.start
           /\ end' = s.end
           /\ found' = s.found
           /\ found_h' = s.found_h
           /\ midpoint' = s.midpoint
           /\ reads' = s.reads
           /\ probes' = s.probes
           /\ calls' = s.calls
           /\ figure' = s.figure
    /\ UNCHANGED <<pc, fn, exception, result, data, searchMax, searchStep, k,
                   searchList, bootVars, memo>>

(* binary_search, line 188: return found_h *)
BinarySearchReturn ==
    /\ pc = "loop"
    /\ ~LoopGuard(Locals)
    /\ result' = found_h
    /\ pc' = "done"
    /\ UNCHANGED <<fn, exception, figure, searchVars, calls, bootVars, memo>>

(* bootstrap, line 217; the user may run the same call again after it has *)
(* ended.                                                                  *)
BootstrapCall(a) ==
    /\ pc = "idle" \/ (pc = "raised" /\ fn = "bootstrap")
    /\ fn' = "bootstrap"
    /\ b_args' = a
    /\ hlist' = <<>>
    /\ i' = 0
    /\ exception' = "None"
    /\ pc' = "boot"
    /\ UNCHANGED <<result, figure, searchVars, calls, fcv_args, h_crit,
                   kde_bw, memo>>

(* bootstrap, lines 219-221: one iteration of the for loop *)
BootstrapIteration(X) ==
    /\ pc = "boot"
    /\ i < b_args.num_simulations
    /\ LET r == find_critical_value(figure, chondrites, LiteralSearchMax,
                                    LiteralSearchStep, LiteralK, X)
       IN  /\ fcv_args' = [data |-> chondrites, searchMax |-> LiteralSearchMax,
                           searchStep |-> LiteralSearchStep, k |-> LiteralK]
           /\ h_crit' = r.h_crit
           /\ kde_bw' = r.kde_bw
           /\ figure' = r.figure
           /\ hlist' = hlist \o <<r.value>>
    /\ i' = i + 1
    /\ UNCHANGED <<pc, fn, exception, result, searchVars, calls, b_args, memo>>

(* bootstrap, line 224: modesList is bound nowhere in the notebook *)
BootstrapReturn ==
    /\ pc = "boot"
    /\ ~(i < b_args.num_simulations)
    /\ exception' = "NameError"
    /\ pc' = "raised"
    /\ UNCHANGED <<fn, result, figure, searchVars, calls, b_args, hlist, i,
                   fcv_args, h_crit, kde_bw, memo>>

GridValues(mx, st) == IF st = 0 THEN {} ELSE Range(arange(0, mx, st))

SearchInputs ==
    { p \in ((-MaxNegSearchMax)..MaxSearchMax \cup {NotFoundPlaceholder + 1})
            \X ((-MaxNegSearchStep)..MaxSearchStep \cup {NotFoundPlaceholder}) :
        p[2] # 0 => ArangeLen(0, p[1], p[2]) <= MaxGrid }

FcvInputs == (0..MaxFcvGrid) \X (0..1)

Next ==
    \/ /\ pc = "idle"
       /\ \E p \in SearchInputs, kk \in 1..MaxK :
              \E d \in [GridValues(p[1], p[2]) -> Counts] :
                  BinarySearchCall(d, p[1], p[2], kk)
    \/ BinarySearchIteration
    \/ BinarySearchReturn
    \/ /\ CellReady
       /\ \E h \in (-MaxNegSearchStep)..MaxSearchStep, c \in Counts,
             keep \in BOOLEAN :
              FindMaximaCall([b \in {h} |-> c], h, keep)
    \/ PlotCell
    \/ /\ pc = "idle"
       /\ \E p \in FcvInputs, kk \in 1..MaxK :
              \E d, X \in [GridValues(p[1], p[2]) -> Counts] :
                  FindCriticalValueCall(d, p[1], p[2], kk, X)
    \/ /\ pc = "idle"
       /\ \E a \in BootstrapArgs : BootstrapCall(a)
    \/ /\ pc = "raised"
       /\ BootstrapCall(b_args)
    \/ /\ pc = "boot"
       /\ \E X \in Resamples : BootstrapIteration(X)
    \/ BootstrapReturn

Spec == Init /\ [][Next]_vars

(* The interpreter runs a started search to its return without pausing *)
FairSpec ==
    Spec /\ WF_vars(BinarySearchIteration) /\ WF_vars(BinarySearchReturn)

-----------------------------------------------------------------------------
(* Vocabulary of the properties *)

(* binary_search has returned found_h to its caller *)
SearchReturned == fn = "binary_search" /\ pc = "done"

(* binary_search has built its grid *)
SearchStarted == fn = "binary_search" /\ pc \in {"loop", "done"}

(* The parameters satisfy the search's stated input contract *)
AdmissibleParameters ==
    searchMax > 0 /\ searchStep > 0 /\ searchMax >= searchStep

(* Mode count of the searched sample at grid index idx (0-based) *)
CountAt(idx) == data[searchList[idx + 1]]

GridIndices == 0..(Len(searchList) - 1)

(* The mode count never increases along the grid *)
NonIncreasing ==
    \A a, b \in GridIndices : a < b => CountAt(b) <= CountAt(a)

MatchingIndices == {idx \in GridIndices : CountAt(idx) = k}

SmallestMatch ==
    CHOOSE m \in MatchingIndices : \A n \in MatchingIndices : m <= n

-----------------------------------------------------------------------------
(* C1: for a grid of N >= 1 candidates and a mode count that is            *)
(* non-increasing along the grid, if some grid index has count k then the  *)
(* search returns grid[m] for the smallest such index m: it neither        *)
(* returns the not-found value nor a larger grid point.                    *)
C1_SmallestMatchReturned ==
    (/\ SearchReturned
     /\ AdmissibleParameters
     /\ NonIncreasing
     /\ MatchingIndices # {})
    => (found /\ result = searchList[SmallestMatch + 1])

(* C2: whenever the search ends with a found bandwidth h, the count at h   *)
(* is k and the count at the grid point immediately below h, h minus       *)
(* searchStep, is not k (h = grid[0] has no grid point below it).          *)
C2_FoundIsGridMinimal ==
    (SearchReturned /\ found)
    => (/\ result \in Range(searchList)
        /\ data[result] = k
        /\ (result # searchList[1] => data[result - searchStep] # k))

C2_Witness ==
    /\ SearchReturned
    /\ AdmissibleParameters
    /\ found
    /\ Len(searchList) >= 3
    /\ result = searchList[3]
    /\ CountAt(0) > k

(* C3: when the loop runs out of range without accepting a grid point,     *)
(* the value returned is not a bandwidth of the grid.                      *)
C3_NotFoundIsNoBandwidth ==
    (SearchReturned /\ AdmissibleParameters /\ ~found)
    => result \notin Range(searchList)

(* C4: when the loop probes index 0 and the count at grid[0] is k, the     *)
(* search accepts grid[0] at once and reads no grid element but grid[0].   *)
C4_FirstPointAcceptedUnwrapped ==
    (/\ SearchStarted
     /\ AdmissibleParameters
     /\ reads # <<>>
     /\ midpoint = 0
     /\ CountAt(0) = k)
    => (found /\ found_h = searchList[1] /\ reads = <<0>>)

(* C5: under the non-increasing assumption, if k exceeds the mode count at *)
(* the smallest positive grid bandwidth h = searchStep, the search returns *)
(* not-found.                                                              *)
C5_TooManyModesNotFound ==
    (/\ SearchReturned
     /\ AdmissibleParameters
     /\ Len(searchList) >= 2
     /\ NonIncreasing
     /\ k > data[searchStep])
    => (~found /\ result = NotFoundPlaceholder)

(* C6: for num_simulations >= 1 a bootstrap call completes and returns a   *)
(* sequence of exactly num_simulations critical bandwidths.                *)
C6_BootstrapReturnsAll ==
    (/\ fn = "bootstrap"
     /\ pc \in {"done", "raised"}
     /\ b_args.num_simulations >= 1)
    => (pc = "done" /\ Len(result) = b_args.num_simulations)

(* C7: every bootstrap iteration searches with the sample, searchMax,      *)
(* searchStep and k its caller passed to bootstrap.                        *)
C7_IterationUsesCallerArguments ==
    (fn = "bootstrap" /\ fcv_args # NoArgs)
    => (/\ fcv_args.data = b_args.data
        /\ fcv_args.searchMax = b_args.searchMax
        /\ fcv_args.searchStep = b_args.searchStep
        /\ fcv_args.k = b_args.k)

(* The grid holds 0, searchStep, 2 searchStep, ... in increasing order *)
GridIsMultiples ==
    /\ \A j \in 1..Len(searchList) : searchList[j] = (j - 1) * searchStep
    /\ \A j \in 1..(Len(searchList) - 1) : searchList[j] < searchList[j + 1]

(* C8: for admissible parameters the grid has exactly                      *)
(* floor(searchMax / searchStep) candidates h_i = i * searchStep, strictly *)
(* increasing.                                                             *)
C8_GridHasFloorCardinality ==
    (SearchStarted /\ AdmissibleParameters)
    => (/\ Len(searchList) = searchMax \div searchStep
        /\ GridIsMultiples)

(* C8 as amended: for admissible parameters the grid has exactly           *)
(* ceil(searchMax / searchStep) candidates h_i = i * searchStep, strictly  *)
(* increasing: every multiple of searchStep below searchMax.               *)
C8_GridHasCeilCardinality ==
    (SearchStarted /\ AdmissibleParameters)
    => (/\ (Len(searchList) - 1) * searchStep < searchMax
        /\ Len(searchList) * searchStep >= searchMax
        /\ GridIsMultiples)

C8_Witness ==
    /\ SearchStarted
    /\ AdmissibleParameters
    /\ searchMax % searchStep # 0
    /\ Len(searchList) = 3

(* C9: called with searchMax <= 0, searchStep <= 0 or an empty grid, the   *)
(* search ends by reporting an error, never by returning a value.          *)
C9_InvalidParametersReported ==
    (/\ fn = "binary_search"
     /\ pc \in {"done", "raised"}
     /\ (searchMax <= 0 \/ searchStep <= 0 \/ Len(searchList) = 0))
    => pc = "raised"

(* C10: find_maxima handed a bandwidth <= 0, by the user or by a probe of  *)
(* the search, raises an error and yields no mode count.                   *)
C10_NonPositiveBandwidthRejected ==
    (\E j \in 1..Len(calls) : calls[j] <= 0)
    => pc = "raised"

-----------------------------------------------------------------------------
(* find_maxima has returned to the notebook user *)
FindMaximaReturned == fn = "find_maxima" /\ pc = "done"

(* The call that just returned has the arguments of the remembered call *)
SameAsRemembered ==
    memo # NoArgs /\ memo.data = data /\ memo.h = calls[1]

(* C11: find_maxima counts the maxima of the curve it has just plotted for *)
(* its own arguments, so a call with the arguments of an earlier call      *)
(* reports what that call reported, whatever calls or plots came between.  *)
C11_FindMaximaReadsOwnCurve ==
    FindMaximaReturned
    => (/\ result = data[calls[1]]
        /\ (SameAsRemembered => result = memo.count))

C11_Witness ==
    /\ FindMaximaReturned
    /\ SameAsRemembered
    /\ memo.later >= 2
    /\ Len(figure) = 1

(* C12: a call of find_maxima leaves the shared figure as it found it.     *)
C12_FindMaximaLeavesFigure ==
    [][(CellReady /\ fn' = "find_maxima") => figure' = figure]_vars

(* Figures an earlier cell of the session may have left *)
EarlierFigures ==
    {<<>>, <<StaleCurve>>, <<VLine>>, <<StaleCurve, VLine, VLine>>}

(* C13: a search is determined by its sample, searchMax, searchStep and k: *)
(* run again from whatever figure the session holds, it probes the same    *)
(* grid indices in the same order and returns the same outcome.            *)
C13_SearchDeterministic ==
    SearchReturned
    => \A fig \in EarlierFigures :
           LET again == binary_search(fig, data, searchMax, searchStep, k)
           IN  /\ again.probes = probes
               /\ again.found = found
               /\ again.value = result

C13_Witness ==
    /\ SearchReturned
    /\ found
    /\ Len(probes) >= 3

(* The first search of the last find_critical_value call found no grid     *)
(* point with k maxima                                                     *)
FirstSearchNotFound ==
    ~binary_search(<<>>, fcv_args.data, fcv_args.searchMax,
                   fcv_args.searchStep, fcv_args.k).found

(* C14: when the first search of find_critical_value finds nothing, the    *)
(* call reports that to its caller: it fits no KDE with the not-found      *)
(* value and returns no bandwidth.                                         *)
C14_FirstNotFoundReported ==
    (/\ fn = "find_critical_value"
     /\ pc \in {"done", "raised"}
     /\ fcv_args.searchMax >= fcv_args.searchStep
     /\ fcv_args.searchStep > 0
     /\ FirstSearchNotFound)
    => (pc = "raised" /\ kde_bw = <<>>)

(* A step of the while loop that leaves the search in the loop *)
LoopStep == fn = "binary_search" /\ pc = "loop" /\ pc' = "loop"

(* C15: every iteration of the search loop probes one grid point and       *)
(* either sets found or strictly shrinks the interval [start, end], and a  *)
(* started search reaches its return, for monotone and non-monotone mode   *)
(* counts alike.                                                           *)
C15_LoopTerminates ==
    /\ [][LoopStep => /\ Len(probes') = Len(probes) + 1
                      /\ (found' \/ end' - start' < end - start)]_vars
    /\ ((fn = "binary_search" /\ pc = "loop") ~> (pc = "done"))

C15_Witness ==
    /\ SearchReturned
    /\ AdmissibleParameters
    /\ ~NonIncreasing
    /\ Len(probes) >= 2

(* C16: while the search runs, 0 <= start, end <= N - 1 and                *)
(* start <= end + 1, and every probed midpoint lies in [start, end] and so *)
(* in the grid index range [0, N - 1].                                     *)
C16_IndicesInRange ==
    /\ [](SearchStarted => /\ 0 <= start
                           /\ end <= Len(searchList) - 1
                           /\ start <= end + 1)
    /\ [][LoopStep => /\ start <= midpoint' /\ midpoint' <= end
                      /\ 0 <= midpoint'
                      /\ midpoint' <= Len(searchList) - 1]_vars

C16_Witness ==
    /\ SearchStarted
    /\ AdmissibleParameters
    /\ Len(probes) >= 2
    /\ start = Len(searchList)
    /\ end = Len(searchList) - 1

(* Critical bandwidths the second search of an iteration can yield *)
SecondSearchValues ==
    { binary_search(<<>>, X, LiteralSearchMax, LiteralSearchStep,
                    LiteralK).value : X \in Resamples }

(* C17: a bootstrap run starts with an empty result sequence; after i      *)
(* iterations the sequence has i entries; an iteration appends one value,  *)
(* the outcome of the second search, and keeps the earlier entries; the    *)
(* end of the loop leaves the sequence alone.                              *)
C17_ResultGrowsByOne ==
    /\ []((fn = "bootstrap" /\ pc = "boot") => Len(hlist) = i)
    /\ [][(pc # "boot" /\ pc' = "boot") => hlist' = <<>>]_vars
    /\ [][(pc = "boot" /\ pc' = "boot")
            => /\ i' = i + 1
               /\ Len(hlist') = Len(hlist) + 1
               /\ SubSeq(hlist', 1, Len(hlist)) = hlist
               /\ hlist'[Len(hlist')] \in SecondSearchValues]_vars
    /\ [][(pc = "boot" /\ pc' # "boot") => hlist' = hlist]_vars

C17_Witness ==
    /\ fn = "bootstrap"
    /\ pc = "boot"
    /\ Len(hlist) = 2
    /\ hlist[1] # hlist[2]

====
